---------------------------- MODULE Spec2Model ----------------------------
(***************************************************************************)
(* A model of connection.js, the BigCommerce API connection: the           *)
(* constructor Connection(config), the four CRUD methods get, put, post    *)
(* and delete, the callback each of them hands to request(), and           *)
(* getRequestOptions.                                                      *)
(*                                                                         *)
(* JavaScript values are tagged records; strings are sequences of          *)
(* one-character strings, so that concatenation, substring and the JSON    *)
(* conversions are computed and not assumed.                               *)
(***************************************************************************)
EXTENDS Integers, Sequences, FiniteSets, TLC

VARIABLES
  arg,        \* the argument the constructor was called with
  called,     \* "none" | "new" | "plain": how Connection was called
  created,    \* "none" | "ok" | "threw": the outcome of the call of Connection
  thrown,     \* the Error the constructor threw, Undefined when none
  host,       \* this.host
  config,     \* this.config
  calls,      \* one record per call of get/put/post/delete: its promise
  requests,   \* every options object handed to request(), in dispatch order
  timers,     \* the setTimeout calls that are pending
  uncaught    \* exceptions thrown out of a request callback (no handler)

vars == <<arg, called, created, thrown, host, config, calls, requests, timers, uncaught>>

(***************************************************************************)
(* Bounds of the model.                                                    *)
(***************************************************************************)
\* The number of calls of get/put/post/delete in one run.
MaxCalls == 2

(***************************************************************************)
(* JavaScript values.                                                      *)
(***************************************************************************)
Undefined == [t |-> "undefined"]
Null      == [t |-> "null"]
Str(s)    == [t |-> "string", s |-> s]
Num(n)    == [t |-> "number", n |-> n]
Bool(b)   == [t |-> "boolean", b |-> b]
Arr(a)    == [t |-> "array", a |-> a]
\* An object: its properties as <<key, value>> pairs, in insertion order.
Obj(o)    == [t |-> "object", o |-> o]
JSError(name, message) == [t |-> "error", name |-> name, message |-> message]

\* typeof v === 'undefined'
IsUndefined(v) == v.t = "undefined"

\* ToBoolean: what `v ? a : b` and `v || w` test.
Truthy(v) ==
  CASE v.t = "undefined" -> FALSE
    [] v.t = "null"      -> FALSE
    [] v.t = "string"    -> v.s # <<>>
    [] v.t = "number"    -> v.n # 0
    [] v.t = "boolean"   -> v.b
    [] OTHER             -> TRUE

\* Property access o[key]: Undefined when the object has no such property.
RECURSIVE PropAt(_, _, _)
PropAt(o, key, i) ==
  IF i > Len(o) THEN Undefined
  ELSE IF o[i][1] = key THEN o[i][2]
  ELSE PropAt(o, key, i + 1)

Prop(v, key) == PropAt(v.o, key, 1)

(***************************************************************************)
(* Strings.                                                                *)
(***************************************************************************)
Digits == <<"0", "1", "2", "3", "4", "5", "6", "7", "8", "9">>

DigitValue(c) == CHOOSE d \in 0..9 : Digits[d + 1] = c
IsDigit(c)    == \E d \in 0..9 : Digits[d + 1] = c

RECURSIVE NatToString(_)
NatToString(n) ==
  IF n < 10 THEN <<Digits[n + 1]>>
  ELSE NatToString(n \div 10) \o <<Digits[(n % 10) + 1]>>

\* ToString (the coercion of `+`) of the values that reach a string concatenation here.
JSToString(v) ==
  CASE v.t = "string"    -> v.s
    [] v.t = "number"    -> NatToString(v.n)
    [] v.t = "undefined" -> <<"u", "n", "d", "e", "f", "i", "n", "e", "d">>
    [] v.t = "null"      -> <<"n", "u", "l", "l">>
    [] OTHER             -> <<"?">>

\* s.substring(from, to), 0-based, to exclusive, clamped to the string.
Substring(s, from, to) ==
  LET hi == IF to > Len(s) THEN Len(s) ELSE to
  IN  IF from >= hi THEN <<>> ELSE SubSeq(s, from + 1, hi)

IsPrefix(p, s) == Len(p) <= Len(s) /\ SubSeq(s, 1, Len(p)) = p

(***************************************************************************)
(* JSON.parse, for the JSON of this model: whitespace (spaces), the        *)
(* literals true, false and null, non-negative integers without leading    *)
(* zeros, strings without escapes, arrays and objects.  Every operator     *)
(* returns [ok, v, i]: whether a value was read, the value, and the index  *)
(* of the first character after it.                                        *)
(***************************************************************************)
Quote == "\""

ParseFail == [ok |-> FALSE, v |-> Undefined, i |-> 0]
ParseOk(v, i) == [ok |-> TRUE, v |-> v, i |-> i]

RECURSIVE SkipWs(_, _)
SkipWs(s, i) ==
  IF i <= Len(s) /\ s[i] = " " THEN SkipWs(s, i + 1) ELSE i

At(s, i) == IF i >= 1 /\ i <= Len(s) THEN s[i] ELSE "EOF"

RECURSIVE ScanDigits(_, _, _)
ScanDigits(s, i, acc) ==
  IF IsDigit(At(s, i))
  THEN ScanDigits(s, i + 1, acc * 10 + DigitValue(s[i]))
  ELSE ParseOk(Num(acc), i)

ParseNumber(s, i) ==
  IF s[i] = "0" THEN ParseOk(Num(0), i + 1) ELSE ScanDigits(s, i, 0)

RECURSIVE ScanString(_, _, _)
ScanString(s, i, acc) ==
  IF i > Len(s) \/ s[i] = "\\" THEN ParseFail
  ELSE IF s[i] = Quote THEN ParseOk(Str(acc), i + 1)
  ELSE ScanString(s, i + 1, Append(acc, s[i]))

ParseString(s, i) == ScanString(s, i + 1, <<>>)

ParseLiteral(s, i, word, v) ==
  IF Substring(s, i - 1, i - 1 + Len(word)) = word
  THEN ParseOk(v, i + Len(word))
  ELSE ParseFail

\* o with property key set to v: replaced in place, or appended.
SetProp(o, key, v) ==
  IF \E k \in 1..Len(o) : o[k][1] = key
  THEN [k \in 1..Len(o) |-> IF o[k][1] = key THEN <<key, v>> ELSE o[k]]
  ELSE Append(o, <<key, v>>)

RECURSIVE ParseValue(_, _)
RECURSIVE ParseElements(_, _, _)
RECURSIVE ParseMembers(_, _, _)

\* The elements of an array, from the first character of an element.
ParseElements(s, i, acc) ==
  LET r == ParseValue(s, i)
      j == SkipWs(s, r.i)
  IN  IF ~r.ok THEN ParseFail
      ELSE IF At(s, j) = "," THEN ParseElements(s, SkipWs(s, j + 1), Append(acc, r.v))
      ELSE IF At(s, j) = "]" THEN ParseOk(Arr(Append(acc, r.v)), j + 1)
      ELSE ParseFail

\* The members of an object, from the opening quote of a key.
ParseMembers(s, i, acc) ==
  LET k == IF At(s, i) = Quote THEN ParseString(s, i) ELSE ParseFail
      c == SkipWs(s, k.i)
      r == IF k.ok /\ At(s, c) = ":" THEN ParseValue(s, SkipWs(s, c + 1)) ELSE ParseFail
      j == SkipWs(s, r.i)
      o == SetProp(acc, k.v.s, r.v)
  IN  IF ~r.ok THEN ParseFail
      ELSE IF At(s, j) = "," THEN ParseMembers(s, SkipWs(s, j + 1), o)
      ELSE IF At(s, j) = "}" THEN ParseOk(Obj(o), j + 1)
      ELSE ParseFail

ParseValue(s, i) ==
  LET c == At(s, i)
  IN  CASE IsDigit(c) -> ParseNumber(s, i)
        [] c = Quote  -> ParseString(s, i)
        [] c = "["    -> IF At(s, SkipWs(s, i + 1)) = "]"
                         THEN ParseOk(Arr(<<>>), SkipWs(s, i + 1) + 1)
                         ELSE ParseElements(s, SkipWs(s, i + 1), <<>>)
        [] c = "{"    -> IF At(s, SkipWs(s, i + 1)) = "}"
                         THEN ParseOk(Obj(<<>>), SkipWs(s, i + 1) + 1)
                         ELSE ParseMembers(s, SkipWs(s, i + 1), <<>>)
        [] c = "t"    -> ParseLiteral(s, i, <<"t", "r", "u", "e">>, Bool(TRUE))
        [] c = "f"    -> ParseLiteral(s, i, <<"f", "a", "l", "s", "e">>, Bool(FALSE))
        [] c = "n"    -> ParseLiteral(s, i, <<"n", "u", "l", "l">>, Null)
        [] OTHER      -> ParseFail

SyntaxError == JSError("SyntaxError", "Unexpected token in JSON")

\* JSON.parse(text): [ok, v], v the value read or the SyntaxError thrown.
\* A text that is no string is first converted to one.
JSONParse(text) ==
  LET s == JSToString(text)
      r == ParseValue(s, SkipWs(s, 1))
  IN  IF r.ok /\ SkipWs(s, r.i) = Len(s) + 1
      THEN [ok |-> TRUE, v |-> r.v]
      ELSE [ok |-> FALSE, v |-> SyntaxError]

(***************************************************************************)
(* JSON.stringify of a value: a string of characters, with no whitespace.  *)
(***************************************************************************)
RECURSIVE Stringify(_)
RECURSIVE StringifyElements(_, _)
RECURSIVE StringifyMembers(_, _)

StringifyElements(a, i) ==
  IF i > Len(a) THEN <<>>
  ELSE (IF i > 1 THEN <<",">> ELSE <<>>)
       \o (IF IsUndefined(a[i]) THEN Stringify(Null) ELSE Stringify(a[i]))
       \o StringifyElements(a, i + 1)

StringifyMembers(o, i) ==
  IF i > Len(o) THEN <<>>
  ELSE (IF i > 1 THEN <<",">> ELSE <<>>)
       \o <<Quote>> \o o[i][1] \o <<Quote, ":">> \o Stringify(o[i][2])
       \o StringifyMembers(o, i + 1)

Stringify(v) ==
  CASE v.t = "number"  -> NatToString(v.n)
    [] v.t = "string"  -> <<Quote>> \o v.s \o <<Quote>>
    [] v.t = "boolean" -> IF v.b THEN <<"t", "r", "u", "e">> ELSE <<"f", "a", "l", "s", "e">>
    [] v.t = "null"    -> <<"n", "u", "l", "l">>
    [] v.t = "array"   -> <<"[">> \o StringifyElements(v.a, 1) \o <<"]">>
    [] v.t = "object"  -> <<"{">> \o StringifyMembers(v.o, 1) \o <<"}">>
    [] OTHER           -> <<>>

\* JSON.stringify(v): a string, or undefined for undefined.
JSONStringify(v) == IF IsUndefined(v) THEN Undefined ELSE Str(Stringify(v))

(***************************************************************************)
(* The inputs of the model: what the application passes in and what the    *)
(* transport (the request module) answers.                                 *)
(***************************************************************************)
KeyHash  == <<"h", "a", "s", "h">>
KeyToken == <<"t", "o", "k", "e", "n">>
KeyCid   == <<"c", "i", "d">>
KeyApi   == <<"a", "p", "i">>
KeyHost  == <<"h", "o", "s", "t">>

StoreHash   == <<"a", "b", "1">>
AccessToken == <<"t", "k">>
ClientId    == <<"c", "7">>
ApiUrl      == <<"h", "t", "t", "p", ":", "/", "/", "b", "c">>

\* The object literal with the properties that are given (not Undefined).
ObjectOf(pairs) == Obj(SelectSeq(pairs, LAMBDA p : ~IsUndefined(p[2])))

ConfigOf(h, t, c, a, hst) ==
  ObjectOf(<< <<KeyHash, h>>, <<KeyToken, t>>, <<KeyCid, c>>, <<KeyApi, a>>,
              <<KeyHost, hst>> >>)

\* The configuration of the README's usage example: hash, token, cid, host.
ReadmeConfig ==
  ConfigOf(Str(StoreHash), Str(AccessToken), Str(ClientId), Undefined, Str(ApiUrl))

\* The constructor's arguments: no argument, null, the README's object, and
\* every object over hash, token, cid and api in which each field is either
\* missing or given, the given ones being all sample values or all ''.
Configs ==
  {Undefined, Null, ReadmeConfig} \cup
  { ConfigOf(IF 1 \in given THEN Str(v[1]) ELSE Undefined,
             IF 2 \in given THEN Str(v[2]) ELSE Undefined,
             IF 3 \in given THEN Str(v[3]) ELSE Undefined,
             IF 4 \in given THEN Str(v[4]) ELSE Undefined,
             Undefined) :
      given \in SUBSET (1..4),
      v \in {<<StoreHash, AccessToken, ClientId, ApiUrl>>, <<(<<>>), <<>>, <<>>, <<>>>>} }

Endpoints == {Str(<<"p">>), Str(<<"/", "p">>)}

\* The request bodies put and post are called with: {price: 10}
DataValues == {Obj(<< <<(<<"p", "r", "i", "c", "e">>), Num(10)>> >>)}

\* A wider choice of inputs, for the properties of the requests dispatched:
\* an endpoint with two leading slashes; data that is falsy (0, false, '').
KeyMaxConcurrentRequests ==
  <<"m", "a", "x", "C", "o", "n", "c", "u", "r", "r", "e", "n", "t",
    "R", "e", "q", "u", "e", "s", "t", "s">>

\* The sample configuration with a ceiling of one connection at a time.
PoolConfig ==
  Obj(ConfigOf(Str(StoreHash), Str(AccessToken), Str(ClientId), Str(ApiUrl), Undefined).o
      \o << <<KeyMaxConcurrentRequests, Num(1)>> >>)

AllConfigs == Configs \cup {PoolConfig}

AllEndpoints == Endpoints \cup {Str(<<"/", "/", "p">>)}

AllDataValues == DataValues \cup {Num(0), Bool(FALSE), Str(<<>>)}

\* {"id":42}
BodyObject == <<"{", Quote, "i", "d", Quote, ":", "4", "2", "}">>
\*  [1, 20]
BodyArray == <<" ", "[", "1", ",", " ", "2", "0", "]">>
\* [1,
BodyMalformed == <<"[", "1", ",">>
\* oops
BodyText == <<"o", "o", "p", "s">>

TransportError == JSError("Error", "ECONNRESET")

HeaderRetryAfter == <<"x", "-", "r", "e", "t", "r", "y", "-", "a", "f", "t", "e", "r">>

\* The header objects of a response: node gives header names in lower case.
NoHeaders   == Obj(<<>>)
RetryAfter1 == Obj(<< <<HeaderRetryAfter, Str(<<"1">>)>> >>)

Response(statusCode, headers) ==
  [t |-> "response", statusCode |-> statusCode, headers |-> headers]

\* What request() passes to its callback: (err, res, body).
Replies ==
  { [err |-> TransportError, res |-> Undefined, body |-> Undefined],
    [err |-> TransportError, res |-> Response(500, NoHeaders), body |-> Str(BodyText)] }
  \cup { [err |-> Null, res |-> Response(200, NoHeaders), body |-> Str(b)] :
           b \in {BodyObject, BodyArray, BodyMalformed} }
  \cup { [err |-> Null, res |-> Response(429, h), body |-> Str(BodyText)] :
           h \in {NoHeaders, RetryAfter1} }
  \cup { [err |-> Null, res |-> Response(500, NoHeaders), body |-> Str(BodyText)] }

(***************************************************************************)
(* The constructor.                                                        *)
(***************************************************************************)
Init ==
  /\ arg = Undefined
  /\ called = "none"
  /\ created = "none"
  /\ thrown = Undefined
  /\ host = Null
  /\ config = Null
  /\ calls = <<>>
  /\ requests = <<>>
  /\ timers = {}
  /\ uncaught = <<>>

\* ConfigError without its check of config.cid.
ConfigErrorNoCid(cfg) ==
  IF IsUndefined(cfg)
  THEN JSError("Error", "Error: Connection needs to be initialized with a config parameter")
  ELSE IF cfg.t = "null"
  THEN JSError("TypeError", "Cannot read property 'hash' of null")
  ELSE IF IsUndefined(Prop(cfg, KeyHash))
  THEN JSError("Error", "Error: Connection needs store hash - config.hash.")
  ELSE IF IsUndefined(Prop(cfg, KeyToken))
  THEN JSError("Error", "Error: Connection needs store oAuth token - config.token.")
  ELSE IF IsUndefined(Prop(cfg, KeyApi))
  THEN JSError("Error", "Error: Connection needs BigComerce API URL - config.api.")
  ELSE Undefined

\* The first check of the constructor that fails, as the Error it throws;
\* Undefined when all pass.  Reading config.hash of null is a TypeError.
ConfigError(cfg) ==
  IF IsUndefined(cfg)
  THEN JSError("Error", "Error: Connection needs to be initialized with a config parameter")
  ELSE IF cfg.t = "null"
  THEN JSError("TypeError", "Cannot read property 'hash' of null")
  ELSE IF IsUndefined(Prop(cfg, KeyHash))
  THEN JSError("Error", "Error: Connection needs store hash - config.hash.")
  ELSE IF IsUndefined(Prop(cfg, KeyToken))
  THEN JSError("Error", "Error: Connection needs store oAuth token - config.token.")
  ELSE IF IsUndefined(Prop(cfg, KeyCid))
  THEN JSError("Error", "Error: Connection needs app client id - config.cid.")
  ELSE IF IsUndefined(Prop(cfg, KeyApi))
  THEN JSError("Error", "Error: Connection needs BigComerce API URL - config.api.")
  ELSE Undefined

\* FullApiUrl with the store hash and the API URL in each other's place.
FullApiUrlSwapped(cfg) ==
  Str(JSToString(Prop(cfg, KeyHash)) \o <<"/", "s", "t", "o", "r", "e", "s", "/">>
      \o JSToString(Prop(cfg, KeyApi)) \o <<"/", "v", "2">>)

\* config.api +'/stores/' +config.hash +'/v2'
FullApiUrl(cfg) ==
  Str(JSToString(Prop(cfg, KeyApi)) \o <<"/", "s", "t", "o", "r", "e", "s", "/">>
      \o JSToString(Prop(cfg, KeyHash)) \o <<"/", "v", "2">>)

\* new Connection(cfg)
\* The statements of the constructor, run on a new instance.
Construct(cfg) ==
  /\ arg' = cfg
  /\ IF ~IsUndefined(ConfigError(cfg))
     THEN /\ created' = "threw"
          /\ thrown' = ConfigError(cfg)
          /\ UNCHANGED <<host, config>>
     ELSE /\ created' = "ok"
          /\ host' = FullApiUrl(cfg)
          /\ config' = cfg
          /\ UNCHANGED thrown
  /\ UNCHANGED <<calls, requests, timers, uncaught>>

\* new Connection(cfg): `this` is the new instance.
Connection(cfg) ==
  /\ created = "none"
  /\ called' = "new"
  /\ Construct(cfg)

\* A plain call whose statements run on the `this` it was given: the global
\* object gets host and config, and the call returns undefined, no instance.
\* The checks of the config throw as they do on an instance.
ConnectionCallOnGlobal(cfg) ==
  /\ created = "none"
  /\ called' = "plain"
  /\ arg' = cfg
  /\ IF ~IsUndefined(ConfigError(cfg))
     THEN /\ created' = "threw"
          /\ thrown' = ConfigError(cfg)
     ELSE /\ created' = "undefined"
          /\ UNCHANGED thrown
  /\ UNCHANGED <<host, config, calls, requests, timers, uncaught>>

\* Connection(cfg) without new: `this` is the global object, no instance of
\* Connection, and the call returns new Connection(cfg).
ConnectionCall(cfg) ==
  /\ created = "none"
  /\ called' = "plain"
  /\ Construct(cfg)

(***************************************************************************)
(* getRequestOptions and the four methods.  Each method creates a promise  *)
(* (a record of calls) and hands one options object to request().          *)
(***************************************************************************)
ApplicationJson ==
  Str(<<"a", "p", "p", "l", "i", "c", "a", "t", "i", "o", "n", "/", "j", "s", "o", "n">>)

\* RequestUrl that puts a '/' before every endpoint.
RequestUrlAlwaysSlash(endpoint) ==
  Str(JSToString(host) \o <<"/">> \o JSToString(endpoint))

\* The url of the options: a '/' is put before an endpoint that starts with
\* another character.
RequestUrl(endpoint) ==
  IF Substring(endpoint.s, 0, 1) # <<"/">>
  THEN Str(JSToString(host) \o <<"/">> \o JSToString(endpoint))
  ELSE Str(JSToString(host) \o JSToString(endpoint))

\* The body of the options: data ? JSON.stringify(data) : null
RequestBody(data) == IF Truthy(data) THEN JSONStringify(data) ELSE Null

\* getRequestOptions with the client id and the token in each other's header.
getRequestOptionsSwapped(method, endpoint, data) ==
  [ url     |-> RequestUrl(endpoint),
    method  |-> method,
    headers |-> [ Accept      |-> ApplicationJson,
                  ContentType |-> ApplicationJson,
                  XAuthClient |-> Prop(config, KeyToken),
                  XAuthToken  |-> Prop(config, KeyCid) ],
    body    |-> RequestBody(data) ]

getRequestOptions(method, endpoint, data) ==
  [ url     |-> RequestUrl(endpoint),
    method  |-> method,
    headers |-> [ Accept      |-> ApplicationJson,
                  ContentType |-> ApplicationJson,
                  XAuthClient |-> Prop(config, KeyCid),
                  XAuthToken  |-> Prop(config, KeyToken) ],
    body    |-> RequestBody(data) ]

\* The connection exists and the node process runs: an uncaught exception
\* ends the process, and nothing runs after it.
Running == created = "ok" /\ uncaught = <<>>

\* The application may call a method: it makes MaxCalls calls at most.
MayCall == Running /\ Len(calls) < MaxCalls

NoReply == [err |-> Undefined, res |-> Undefined, body |-> Undefined]

\* A method that hands the transport the same request twice.
DispatchTwice(method, endpoint, data) ==
  LET attempt == [ call |-> Len(calls) + 1, done |-> FALSE, reply |-> NoReply,
                   options |-> getRequestOptions(method, endpoint, data) ]
  IN  /\ Len(requests) + 2 <= MaxCalls
      /\ calls' = Append(calls,
           [ method |-> method, endpoint |-> endpoint, data |-> data,
             state |-> "pending", value |-> Undefined,
             answered |-> FALSE, reply |-> NoReply ])
      /\ requests' = requests \o <<attempt, attempt>>
      /\ UNCHANGED <<arg, called, created, thrown, host, config, timers, uncaught>>

\* A method that answers a call it has seen before from the earlier call,
\* with no request of its own.
DispatchCached(method, endpoint, data) ==
  LET seenBefore == \E c \in 1..Len(calls) :
                      calls[c].method = method /\ calls[c].endpoint = endpoint
  IN  /\ calls' = Append(calls,
           [ method |-> method, endpoint |-> endpoint, data |-> data,
             state |-> "pending", value |-> Undefined,
             answered |-> FALSE, reply |-> NoReply ])
      /\ requests' =
           IF seenBefore THEN requests
           ELSE Append(requests,
                  [ call |-> Len(calls) + 1, done |-> FALSE, reply |-> NoReply,
                    options |-> getRequestOptions(method, endpoint, data) ])
      /\ UNCHANGED <<arg, called, created, thrown, host, config, timers, uncaught>>

\* new Promise(...) of a method, and its request(options, callback): the
\* promise is pending, the request is with the transport.
Dispatch(method, endpoint, data) ==
  /\ calls' = Append(calls,
       [ method |-> method, endpoint |-> endpoint, data |-> data,
         state |-> "pending", value |-> Undefined,
         answered |-> FALSE, reply |-> NoReply ])
  /\ requests' = Append(requests,
       [ call |-> Len(calls) + 1, done |-> FALSE, reply |-> NoReply,
         options |-> getRequestOptions(method, endpoint, data) ])
  /\ UNCHANGED <<arg, called, created, thrown, host, config, timers, uncaught>>

get(endpoint) ==
  /\ MayCall
  /\ Dispatch("GET", endpoint, Undefined)

put(endpoint, data) ==
  /\ MayCall
  /\ Dispatch("PUT", endpoint, data)

post(endpoint, data) ==
  /\ MayCall
  /\ Dispatch("POST", endpoint, data)

delete(endpoint) ==
  /\ MayCall
  /\ Dispatch("DELETE", endpoint, Undefined)

(***************************************************************************)
(* The callback of request(): function(err, res, body).  The four methods  *)
(* carry the same text.                                                    *)
(***************************************************************************)
\* err || res.statusCode !== 200: the status is read only when err is falsy.
IsFailure(err, res) == Truthy(err) \/ res.statusCode # 200

\* RejectReason that always gives the body.
RejectReasonBody(err, body) == body

\* RejectReason that always gives err.
RejectReasonErr(err, body) == err

\* err ? reject(err) : reject(body)
RejectReason(err, body) == IF Truthy(err) THEN err ELSE body

\* FulfillValue without the parse: the raw body.
FulfillRaw(body) == body

\* fulfill(JSON.parse(body)): the value the promise is fulfilled with.
FulfillValue(body) == JSONParse(body).v

ReferenceError == JSError("ReferenceError", "retry is not defined")

\* The result of parseInt and of arithmetic on it when no number is read.
NaN == [t |-> "NaN"]

\* parseInt(v): the number of the leading digits of the string of v (after
\* whitespace), NaN when there is none; parseInt(undefined) is NaN.
ParseInt(v) ==
  LET s == JSToString(v)
      i == SkipWs(s, 1)
  IN  IF IsDigit(At(s, i)) THEN ScanDigits(s, i, 0).v ELSE NaN

RetryMargin == 2
MsPerSecond == 1000

\* The name the callback reads the retry-after header under.
XRetryAfter == <<"X", "-", "R", "e", "t", "r", "y", "-", "A", "f", "t", "e", "r">>

\* var timeout = ((parseInt(res.headers["X-Retry-After"]) + 2) * 1000)
Timeout(res) ==
  LET seconds == ParseInt(Prop(res.headers, XRetryAfter))
  IN  IF seconds = NaN THEN NaN ELSE Num((seconds.n + RetryMargin) * MsPerSecond)

\* fulfill(v) or reject(v) of call c: a promise is settled once.
Settle(c, state, v) ==
  IF calls[c].state = "pending"
  THEN [calls EXCEPT ![c].state = state, ![c].value = v]
  ELSE calls

\* What reading res.statusCode throws when res is undefined.
StatusOfUndefined == JSError("TypeError", "Cannot read property 'statusCode' of undefined")

\* What the statements after the test of a failure do with (res, body):
\* the exception they throw, or undefined when they throw none.
ThrownByParsing(res, body) ==
  IF IsUndefined(res) THEN StatusOfUndefined
  ELSE IF res.statusCode = 429 THEN ReferenceError
  ELSE IF JSONParse(body).ok THEN Undefined
  ELSE JSONParse(body).v

\* Callback whose failure branch rejects without returning: the statements
\* for a good response run after the rejection too.
CallbackFallsThrough(r, reply) ==
  LET c    == requests[r].call
      err  == reply.err
      res  == reply.res
      body == reply.body
      exc  == ThrownByParsing(res, body)
      rejected == IF IsFailure(err, res)
                  THEN Settle(c, "rejected", RejectReason(err, body))
                  ELSE calls
      settled  == IF IsUndefined(exc) /\ rejected[c].state = "pending"
                  THEN [rejected EXCEPT ![c].state = "fulfilled", ![c].value = FulfillValue(body)]
                  ELSE rejected
  IN  /\ Running
      /\ ~requests[r].done
      /\ requests' = [requests EXCEPT ![r].done = TRUE, ![r].reply = reply]
      /\ calls' = [settled EXCEPT ![c].answered = TRUE, ![c].reply = reply]
      /\ uncaught' = IF IsUndefined(exc) THEN uncaught
                     ELSE Append(uncaught, [call |-> c, error |-> exc])
      /\ UNCHANGED <<arg, called, created, thrown, host, config, timers>>

\* Callback whose test reads the status before the error:
\* res.statusCode !== 200 || err.
CallbackStatusFirst(r, reply) ==
  LET c    == requests[r].call
      err  == reply.err
      res  == reply.res
      body == reply.body
      seen == [calls EXCEPT ![c].answered = TRUE, ![c].reply = reply]
  IN  /\ Running
      /\ ~requests[r].done
      /\ requests' = [requests EXCEPT ![r].done = TRUE, ![r].reply = reply]
      /\ IF IsUndefined(res)
         THEN /\ calls' = seen
              /\ uncaught' = Append(uncaught, [call |-> c, error |-> StatusOfUndefined])
         ELSE IF res.statusCode # 200 \/ Truthy(err)
         THEN /\ calls' = [Settle(c, "rejected", RejectReason(err, body))
                             EXCEPT ![c].answered = TRUE, ![c].reply = reply]
              /\ UNCHANGED uncaught
         ELSE IF JSONParse(body).ok
         THEN /\ calls' = [Settle(c, "fulfilled", FulfillValue(body))
                             EXCEPT ![c].answered = TRUE, ![c].reply = reply]
              /\ UNCHANGED uncaught
         ELSE /\ calls' = seen
              /\ uncaught' = Append(uncaught, [call |-> c, error |-> JSONParse(body).v])
      /\ UNCHANGED <<arg, called, created, thrown, host, config, timers>>

\* The callback of request r, called with reply = (err, res, body).
\*  - a failure rejects the promise;
\*  - the branch for status 429 evaluates the arguments of setTimeout, of
\*    which `retry` is declared nowhere: a ReferenceError, thrown out of the
\*    callback before setTimeout is called;
\*  - otherwise the body is parsed: JSON.parse throws out of the callback,
\*    or the promise is fulfilled with the value.
Callback(r, reply) ==
  LET c    == requests[r].call
      err  == reply.err
      res  == reply.res
      body == reply.body
      seen == [calls EXCEPT ![c].answered = TRUE, ![c].reply = reply]
  IN  /\ Running
      /\ ~requests[r].done
      /\ requests' = [requests EXCEPT ![r].done = TRUE, ![r].reply = reply]
      /\ IF IsFailure(err, res)
         THEN /\ calls' = [Settle(c, "rejected", RejectReason(err, body))
                             EXCEPT ![c].answered = TRUE, ![c].reply = reply]
              /\ UNCHANGED <<timers, uncaught>>
         ELSE IF res.statusCode = 429
         THEN /\ calls' = seen
              /\ uncaught' = Append(uncaught, [call |-> c, error |-> ReferenceError])
              /\ UNCHANGED timers
         ELSE IF JSONParse(body).ok
         THEN /\ calls' = [Settle(c, "fulfilled", FulfillValue(body))
                             EXCEPT ![c].answered = TRUE, ![c].reply = reply]
              /\ UNCHANGED <<timers, uncaught>>
         ELSE /\ calls' = seen
              /\ uncaught' = Append(uncaught, [call |-> c, error |-> JSONParse(body).v])
              /\ UNCHANGED timers
      /\ UNCHANGED <<arg, called, created, thrown, host, config>>

getCallback(r, reply) ==
  /\ r \in 1..Len(requests)
  /\ requests[r].options.method = "GET"
  /\ Callback(r, reply)

putCallback(r, reply) ==
  /\ r \in 1..Len(requests)
  /\ requests[r].options.method = "PUT"
  /\ Callback(r, reply)

postCallback(r, reply) ==
  /\ r \in 1..Len(requests)
  /\ requests[r].options.method = "POST"
  /\ Callback(r, reply)

deleteCallback(r, reply) ==
  /\ r \in 1..Len(requests)
  /\ requests[r].options.method = "DELETE"
  /\ Callback(r, reply)

Next ==
  \/ \E cfg \in Configs : Connection(cfg)
  \/ \E e \in Endpoints : get(e)
  \/ \E e \in Endpoints, d \in DataValues : put(e, d)
  \/ \E e \in Endpoints, d \in DataValues : post(e, d)
  \/ \E e \in Endpoints : delete(e)
  \/ \E r \in 1..MaxCalls, reply \in Replies : getCallback(r, reply)
  \/ \E r \in 1..MaxCalls, reply \in Replies : putCallback(r, reply)
  \/ \E r \in 1..MaxCalls, reply \in Replies : postCallback(r, reply)
  \/ \E r \in 1..MaxCalls, reply \in Replies : deleteCallback(r, reply)

Spec == Init /\ [][Next]_vars

\* The constructor and the four methods alone, over the wider inputs: the
\* requests the connection dispatches, whatever the transport answers later.
DispatchNext ==
  \/ \E cfg \in AllConfigs : Connection(cfg)
  \/ \E cfg \in AllConfigs : ConnectionCall(cfg)
  \/ \E e \in AllEndpoints : get(e)
  \/ \E e \in AllEndpoints, d \in AllDataValues : put(e, d)
  \/ \E e \in AllEndpoints, d \in AllDataValues : post(e, d)
  \/ \E e \in AllEndpoints : delete(e)

DispatchSpec == Init /\ [][DispatchNext]_vars

(***************************************************************************)
(* What the properties below speak of.                                     *)
(***************************************************************************)
CallIds == 1..Len(calls)

\* The requests dispatched for call c, and its pending timers.
RequestsOf(c) == {r \in 1..Len(requests) : requests[r].call = c}
TimersOf(c)   == {tm \in timers : tm.call = c}

\* The latest attempt of call c was answered, without a transport error.
HttpAnswered(c) == calls[c].answered /\ ~Truthy(calls[c].reply.err)

StatusOf(c) == calls[c].reply.res.statusCode

\* The latest attempt of call c was answered with status 429.
RateLimited(c) == HttpAnswered(c) /\ StatusOf(c) = 429

\* The latest attempt of call c was answered with another status than 200, 429.
ApiError(c) == HttpAnswered(c) /\ StatusOf(c) \notin {200, 429}

\* The latest attempt of call c ended in a transport error.
TransportFailed(c) == calls[c].answered /\ Truthy(calls[c].reply.err)

\* The latest attempt of call c was answered 200, with a body that is JSON.
WellFormed200(c) ==
  HttpAnswered(c) /\ StatusOf(c) = 200 /\ JSONParse(calls[c].reply.body).ok

\* The latest attempt of call c was answered 200, with a body that is no JSON.
Malformed200(c) ==
  HttpAnswered(c) /\ StatusOf(c) = 200 /\ ~JSONParse(calls[c].reply.body).ok

\* A retry of call c is under way: its timer is pending, or its request is
\* with the transport.
RetryUnderWay(c) ==
  \/ TimersOf(c) # {}
  \/ \E r \in RequestsOf(c) : ~requests[r].done

(***************************************************************************)
(* C1.  A response with status 429 does not settle the caller's promise:   *)
(* while the latest answer of a call is a 429 its promise is pending and a *)
(* retry is under way.  The callback rejects with the body instead: 429 is *)
(* not 200, so the first test of the callback takes it.                    *)
(***************************************************************************)
C1_RateLimitedIsNotTheResult ==
  \A c \in CallIds :
    RateLimited(c) => calls[c].state = "pending" /\ RetryUnderWay(c)

(***************************************************************************)
(* C2.  Every attempt of a call carries the method, the path and the body  *)
(* of its first attempt, and a call answered 429 gets such a further       *)
(* attempt (scheduled or dispatched).  No further attempt exists: the call *)
(* is rejected by the 429 (C1).                                            *)
(***************************************************************************)
C2_RetrySameMethodPathBody ==
  \A c \in CallIds :
    /\ \A r \in RequestsOf(c) :
         /\ requests[r].options.method = calls[c].method
         /\ requests[r].options.url = RequestUrl(calls[c].endpoint)
         /\ requests[r].options.body = RequestBody(calls[c].data)
    /\ RateLimited(c) =>
         \/ \E tm \in TimersOf(c) :
              /\ tm.method = calls[c].method
              /\ tm.endpoint = calls[c].endpoint
              /\ tm.data = calls[c].data
         \/ \E r \in RequestsOf(c) : ~requests[r].done

(***************************************************************************)
(* C3.  After a 429 whose retry-after header is r, the next attempt waits  *)
(* for a timer of (r + 2) * 1000 milliseconds: until that attempt is       *)
(* dispatched, such a timer is pending.  No timer is ever set.             *)
(***************************************************************************)
\* The seconds a response asks to wait: the digits of its retry-after header.
RetryAfterSeconds(res) == ScanDigits(Prop(res.headers, HeaderRetryAfter).s, 1, 0).v.n

C3_RetryWaitsForRetryAfter ==
  \A c \in CallIds :
    (RateLimited(c) /\ ~IsUndefined(Prop(calls[c].reply.res.headers, HeaderRetryAfter))) =>
      \/ \E tm \in TimersOf(c) :
           tm.delay = (RetryAfterSeconds(calls[c].reply.res) + RetryMargin) * MsPerSecond
      \/ \E r \in RequestsOf(c) : ~requests[r].done

(***************************************************************************)
(* C4.  A call answered with a status other than 200 and 429 is rejected,  *)
(* and exactly one request was dispatched for it.                          *)
(***************************************************************************)
\* The rejection value v exposes the status code and the raw body.
ExposesStatusAndBody(v, statusCode, body) ==
  /\ "statusCode" \in DOMAIN v /\ v.statusCode = statusCode
  /\ "body" \in DOMAIN v /\ v.body = body

C5_TransportErrorUnmodified ==
  \A c \in CallIds :
    TransportFailed(c) =>
      /\ calls[c].state = "rejected"
      /\ calls[c].value = calls[c].reply.err
      /\ Cardinality(RequestsOf(c)) = 1
      /\ ~RetryUnderWay(c)

\* Two calls have failed: one without a response object, one with.
C5_Witness ==
  \E c, d \in CallIds :
    /\ TransportFailed(c) /\ IsUndefined(calls[c].reply.res)
    /\ TransportFailed(d) /\ ~IsUndefined(calls[d].reply.res)
    /\ calls[c].state = "rejected" /\ calls[d].state = "rejected"

(***************************************************************************)
(* C6.  A call answered 200 with a well-formed body is fulfilled with the  *)
(* value the body denotes: {"id":42} gives the object with id 42, and      *)
(* " [1, 20]" the array of 1 and 20.                                       *)
(***************************************************************************)
C6_FulfilledWithParsedBody ==
  \A c \in CallIds :
    WellFormed200(c) =>
      /\ calls[c].state = "fulfilled"
      /\ calls[c].value = JSONParse(calls[c].reply.body).v
      /\ calls[c].reply.body = Str(BodyObject) =>
           calls[c].value = Obj(<< <<(<<"i", "d">>), Num(42)>> >>)
      /\ calls[c].reply.body = Str(BodyArray) =>
           calls[c].value = Arr(<<Num(1), Num(20)>>)
      /\ calls[c].value.t \in {"object", "array"}

C6_Witness ==
  \E c, d \in CallIds :
    /\ WellFormed200(c) /\ calls[c].reply.body = Str(BodyObject)
    /\ WellFormed200(d) /\ calls[d].reply.body = Str(BodyArray)
    /\ calls[c].method \in {"GET", "DELETE"} /\ calls[d].method \in {"PUT", "POST"}
    /\ calls[c].state = "fulfilled" /\ calls[d].state = "fulfilled"

(***************************************************************************)
(* C7.  A call answered 200 with a body that is no JSON is rejected with a *)
(* parse error, and nothing is thrown outside the promise.  JSON.parse     *)
(* throws inside the callback of request(), which no promise guards: the   *)
(* exception is uncaught and the promise stays pending.                    *)
(***************************************************************************)
C7_MalformedBodyRejects ==
  \A c \in CallIds :
    Malformed200(c) =>
      /\ calls[c].state = "rejected"
      /\ calls[c].value = SyntaxError
      /\ uncaught = <<>>

(***************************************************************************)
(* C8.  Construction fails, and leaves no connection and no request, for   *)
(* a configuration with a required field missing.                          *)
(***************************************************************************)
RequiredKeys == {KeyHash, KeyToken, KeyCid, KeyApi}

\* No configuration object, or one with a required field missing.
FieldMissing(cfg) ==
  \/ IsUndefined(cfg)
  \/ cfg.t = "object" /\ \E k \in RequiredKeys : IsUndefined(Prop(cfg, k))

\* A configuration object with a required field that is ''.
FieldEmpty(cfg) ==
  cfg.t = "object" /\ \E k \in RequiredKeys : Prop(cfg, k) = Str(<<>>)

ConstructionFailed ==
  /\ created = "threw"
  /\ thrown.t = "error"
  /\ host = Null /\ config = Null
  /\ requests = <<>> /\ calls = <<>>

AllFieldsGiven(cfg) ==
  cfg.t = "object" /\ \A k \in RequiredKeys : ~IsUndefined(Prop(cfg, k))

C9_ResourceRoot ==
  (created # "none" /\ AllFieldsGiven(arg)) =>
    /\ created = "ok"
    /\ host = Str(Prop(arg, KeyApi).s \o <<"/", "s", "t", "o", "r", "e", "s", "/">>
                  \o Prop(arg, KeyHash).s \o <<"/", "v", "2">>)
    /\ \A r \in 1..Len(requests) : IsPrefix(host.s, requests[r].options.url.s)

\* http://bc/stores/ab1/v2 is the root of two dispatched requests, one for
\* the endpoint 'p' and one for '/p'.
C9_Witness ==
  /\ created = "ok"
  /\ host = Str(<<"h", "t", "t", "p", ":", "/", "/", "b", "c", "/", "s", "t", "o",
                  "r", "e", "s", "/", "a", "b", "1", "/", "v", "2">>)
  /\ Len(requests) = 2
  /\ calls[1].endpoint # calls[2].endpoint
  /\ requests[2].options.url = Str(host.s \o <<"/", "p">>)

(***************************************************************************)
(* C10.  The configuration of the README's usage example (hash, token,     *)
(* cid, host) gives a connection whose requests go to that host.  The      *)
(* constructor reads config.api, which the example does not give: it       *)
(* throws.                                                                 *)
(***************************************************************************)
C10_ReadmeConfigConnects ==
  (created # "none" /\ arg = ReadmeConfig) =>
    /\ created = "ok"
    /\ IsPrefix(Prop(arg, KeyHost).s, JSToString(host))

(***************************************************************************)
(* C11.  The URL of a request is the resource root followed by the path    *)
(* with one leading "/".                                                   *)
(***************************************************************************)
\* s without its leading '/' characters.
RECURSIVE StripSlashes(_)
StripSlashes(s) ==
  IF s # <<>> /\ Head(s) = "/" THEN StripSlashes(Tail(s)) ELSE s

\* The endpoint request r was made for.
EndpointOf(r) == calls[requests[r].call].endpoint.s

\* C11 as claimed: however many leading separators the endpoint has (none,
\* one or more), the url holds exactly one between the root and the path.
C11_OneLeadingSeparator ==
  \A r \in 1..Len(requests) :
    requests[r].options.url = Str(host.s \o <<"/">> \o StripSlashes(EndpointOf(r)))

\* C11 as amended: an endpoint that starts with "/" is appended as it is,
\* with all its leading separators, and any other endpoint after one "/";
\* so p and "/" + p give the same url when p has no leading separator.
C11_SeparatorAddedWhenMissing ==
  \A r \in 1..Len(requests) :
    /\ requests[r].options.url =
         Str(host.s \o (IF At(EndpointOf(r), 1) = "/" THEN <<>> ELSE <<"/">>)
                    \o EndpointOf(r))
    /\ \A q \in 1..Len(requests) :
         EndpointOf(q) = <<"/">> \o EndpointOf(r) /\ At(EndpointOf(r), 1) # "/"
           => requests[q].options.url = requests[r].options.url

\* 'p' and '/p' were dispatched to one url, the root followed by '/p'.
C11_Witness ==
  /\ Len(requests) = 2
  /\ EndpointOf(1) = <<"p">> /\ EndpointOf(2) = <<"/", "p">>
  /\ requests[1].options.url = requests[2].options.url
  /\ requests[1].options.url = Str(host.s \o <<"/", "p">>)

(***************************************************************************)
(* C12.  Every request carries Accept and Content-Type application/json,   *)
(* the configured client id as X-Auth-Client and the configured token as   *)
(* X-Auth-Token: the headers are the same for every call of a connection.  *)
(***************************************************************************)
C12_StandardHeaders ==
  \A r \in 1..Len(requests) :
    requests[r].options.headers =
      [ Accept      |-> ApplicationJson,
        ContentType |-> ApplicationJson,
        XAuthClient |-> Prop(arg, KeyCid),
        XAuthToken  |-> Prop(arg, KeyToken) ]

\* Two calls that differ in method, endpoint and data were dispatched with
\* the client id 'c7' and the token 'tk'.
C12_Witness ==
  /\ Len(requests) = 2
  /\ calls[1].method # calls[2].method
  /\ calls[1].endpoint # calls[2].endpoint
  /\ calls[1].data # calls[2].data
  /\ \A r \in 1..2 :
       /\ requests[r].options.headers.XAuthClient = Str(<<"c", "7">>)
       /\ requests[r].options.headers.XAuthToken = Str(<<"t", "k">>)

(***************************************************************************)
(* C13.  A put or post that was given data, falsy values (0, false, '')    *)
(* included, is dispatched with the serialization of the data; a get or    *)
(* delete is dispatched with no body.  The options take the body from      *)
(* `data ? JSON.stringify(data) : null`: falsy data gives no body.         *)
(***************************************************************************)
C13_BodyIsSerializedData ==
  \A r \in 1..Len(requests) :
    LET c == calls[requests[r].call]
    IN  /\ (c.method \in {"PUT", "POST"} /\ ~IsUndefined(c.data)) =>
             requests[r].options.body = Str(Stringify(c.data))
        /\ c.method \in {"GET", "DELETE"} => requests[r].options.body = Null

(***************************************************************************)
(* C14.  With a ceiling of N concurrent requests configured, no more than  *)
(* N requests are with the transport at any instant.  The connection reads *)
(* no such option and dispatches every call at once.                       *)
(***************************************************************************)
InFlight == {r \in 1..Len(requests) : ~requests[r].done}

C14_AtMostMaxInFlight ==
  (created = "ok" /\ ~IsUndefined(Prop(config, KeyMaxConcurrentRequests))) =>
    Cardinality(InFlight) <= Prop(config, KeyMaxConcurrentRequests).n

(***************************************************************************)
(* C15.  A 429 without a retry-after header still gets its retry, after a  *)
(* delay that is a number of milliseconds: the delay computed for the      *)
(* response is a number, and a timer with a number as delay is pending     *)
(* until the next attempt is dispatched.  No timer is set (C1), and the    *)
(* delay line 98 computes for such a response is NaN.                      *)
(***************************************************************************)
C15_DelayWithoutHeaderIsANumber ==
  \A c \in CallIds :
    (RateLimited(c) /\ IsUndefined(Prop(calls[c].reply.res.headers, HeaderRetryAfter))) =>
      /\ Timeout(calls[c].reply.res).t = "number"
      /\ \/ \E tm \in TimersOf(c) : tm.delay \in Nat
         \/ \E r \in RequestsOf(c) : ~requests[r].done

(***************************************************************************)
(* C16.  A call answered 429 on its first n attempts and otherwise on      *)
(* attempt n + 1 dispatches n + 1 requests and settles by attempt n + 1:   *)
(* a settled call was answered last with another status than 429, and it   *)
(* has dispatched one request more than it got 429 answers.  A call is     *)
(* settled by its first 429 (C1), after one request.                       *)
(***************************************************************************)
\* The attempts of call c that were answered 429.
Throttled(c) ==
  {r \in RequestsOf(c) :
     /\ requests[r].done
     /\ ~Truthy(requests[r].reply.err)
     /\ requests[r].reply.res.statusCode = 429}

C16_OneRetryPerThrottledAttempt ==
  \A c \in CallIds :
    calls[c].state # "pending" =>
      /\ ~RateLimited(c)
      /\ Cardinality(RequestsOf(c)) = Cardinality(Throttled(c)) + 1

(***************************************************************************)
(* C17.  Within one call at most one attempt is in flight at any instant:  *)
(* a later attempt of a call is dispatched only when every earlier one has *)
(* been answered, and no timer of a call is pending while one of its       *)
(* attempts is in flight.                                                  *)
(***************************************************************************)
AttemptsInFlight(c) == {r \in RequestsOf(c) : ~requests[r].done}

C18_AnsweredCallIsSettled ==
  \A c \in CallIds :
    (calls[c].answered /\ ~RateLimited(c)) => calls[c].state # "pending"

(***************************************************************************)
(* C19.  The outcome of a call depends on the answers to its own attempts  *)
(* alone: an error raised for another call never stops a call whose        *)
(* attempt is in flight from being answered and settled.  The exception    *)
(* thrown for a malformed body (C7) is no rejection of its own call but an *)
(* uncaught exception of the process, which ends every other call with it. *)
(***************************************************************************)
C19_CallsAreIndependent ==
  \A c \in CallIds :
    (\E k \in 1..Len(uncaught) : uncaught[k].call # c) =>
      /\ AttemptsInFlight(c) = {}
      /\ calls[c].state # "pending"

(***************************************************************************)
(* C20.  No call and no outcome changes the stored configuration or the    *)
(* resource root; every call dispatches a request of its own; and a        *)
(* promise changes only by the answer to a request of its own call, so     *)
(* two calls of get with one path are two requests and two resolutions.    *)
(***************************************************************************)
C20_StatelessBetweenCalls ==
  [][ created = "ok" =>
        /\ config' = config /\ host' = host /\ arg' = arg
        /\ Len(calls') > Len(calls) =>
             /\ Len(requests') = Len(requests) + 1
             /\ requests'[Len(requests')].call = Len(calls')
             /\ ~requests'[Len(requests')].done
             /\ calls'[Len(calls')].state = "pending"
        /\ \A c \in CallIds :
             calls'[c] # calls[c] =>
               \E r \in RequestsOf(c) : ~requests[r].done /\ requests'[r].done
    ]_vars

\* get('p') was called twice: two requests went out, and the two promises
\* are fulfilled each with the value of its own answer.
C20_Witness ==
  /\ Len(calls) = 2 /\ Len(requests) = 2
  /\ \A c \in CallIds : calls[c].method = "GET" /\ calls[c].endpoint = Str(<<"p">>)
  /\ requests[1].call = 1 /\ requests[2].call = 2
  /\ requests[1].options = requests[2].options
  /\ calls[1].state = "fulfilled" /\ calls[2].state = "fulfilled"
  /\ calls[1].value # calls[2].value

(***************************************************************************)
(* C21.  A promise is settled at most once and stays as it was settled: no *)
(* step changes the state or the value of a settled call, and the step     *)
(* that rejects a call on a transport error or a status other than 200     *)
(* runs nothing of the branch for a good response: it neither fulfils the  *)
(* promise nor throws out of the parsing of the body.                      *)
(***************************************************************************)
\* The exceptions a step has left uncaught for call c.
NewlyUncaught(c) ==
  {k \in (Len(uncaught) + 1)..Len(uncaught') : uncaught'[k].call = c}

C21_SettledOnce ==
  [][ \A c \in CallIds :
        /\ calls[c].state # "pending" =>
             /\ calls'[c].state = calls[c].state
             /\ calls'[c].value = calls[c].value
        /\ (~calls[c].answered /\ calls'[c].answered
              /\ IsFailure(calls'[c].reply.err, calls'[c].reply.res)) =>
             /\ calls'[c].state = "rejected"
             /\ NewlyUncaught(c) = {}
    ]_vars

\* One call was rejected on an error that came with a response, and is
\* rejected still after the other call was answered and fulfilled.
C21_Witness ==
  /\ Len(calls) = 2
  /\ calls[1].state = "rejected"
  /\ Truthy(calls[1].reply.err) /\ ~IsUndefined(calls[1].reply.res)
  /\ calls[1].value = calls[1].reply.err
  /\ calls[2].state = "fulfilled"
  /\ uncaught = <<>>

(***************************************************************************)
(* C22.  A callback given both an error and a response with another status *)
(* than 200 rejects the call with the error, not with the body; given an   *)
(* error and no response, it rejects with the error without reading the    *)
(* status of the response, which would throw.                              *)
(***************************************************************************)
C22_ErrorBeforeStatus ==
  \A c \in CallIds :
    (calls[c].answered /\ Truthy(calls[c].reply.err)) =>
      /\ calls[c].state = "rejected"
      /\ \A k \in 1..Len(uncaught) : uncaught[k].call # c
      /\ ~IsUndefined(calls[c].reply.res) =>
           /\ calls[c].reply.res.statusCode # 200
           /\ calls[c].value = calls[c].reply.err
           /\ calls[c].value # calls[c].reply.body

\* Both kinds of answer have come: an error with a response of status 500
\* and a body, and an error with no response.
C22_Witness ==
  /\ Len(calls) = 2
  /\ Truthy(calls[1].reply.err) /\ calls[1].reply.res = Response(500, NoHeaders)
  /\ calls[1].reply.body = Str(BodyText)
  /\ calls[1].value = TransportError
  /\ Truthy(calls[2].reply.err) /\ IsUndefined(calls[2].reply.res)
  /\ calls[2].state = "rejected"

(***************************************************************************)
(* C23.  Connection(config) called without new gives what new              *)
(* Connection(config) gives: for a config the constructor takes, an        *)
(* instance with that config and the resource root made of it; for a       *)
(* config it refuses, the error the constructor throws.                    *)
(***************************************************************************)
C23_PlainCallConstructs ==
  called = "plain" =>
    IF IsUndefined(ConfigError(arg))
    THEN /\ created = "ok"
         /\ config = arg
         /\ host = FullApiUrl(arg)
         /\ IsUndefined(thrown)
    ELSE /\ created = "threw"
         /\ thrown = ConfigError(arg)
         /\ host = Null /\ config = Null

\* A plain call has given a connection, which has dispatched a request
\* under its resource root.
C23_Witness ==
  /\ called = "plain"
  /\ created = "ok"
  /\ host = Str(ApiUrl \o <<"/", "s", "t", "o", "r", "e", "s", "/">> \o StoreHash \o <<"/", "v", "2">>)
  /\ Len(requests) = 1
  /\ requests[1].options.url = Str(host.s \o <<"/", "p">>)

=============================================================================
